---- MODULE Spec2Model ----
(***************************************************************************)
(* A model of covid.py: one run of test(opts).  The run fetches the raw    *)
(* feed into the cache file (get_data), loads and cleans it, optionally    *)
(* lists the country codes (show_all_country_codes), reverses the table,   *)
(* attaches the derived columns, filters by the threshold and reports the  *)
(* requested countries.                                                    *)
(***************************************************************************)
EXTENDS Integers, Sequences, FiniteSets, TLC

VARIABLES
    pc,        \* position of the run inside test(opts)
    opts,      \* the parsed command line (docopt)
    term,      \* os.get_terminal_size().columns
    net,       \* what the remote endpoint answers to the GET
    cache,     \* contents of DATA_FILE
    io,        \* the requests and the accesses to DATA_FILE, in order
    df,        \* the table of test(): raw rows, then derived rows
    df2,       \* the filtered working set
    grid,      \* rows printed by show_all_country_codes
    out,       \* what the report functions printed or plotted, in order
    todo,      \* requested country codes not yet displayed
    fault      \* the exception that ended the run, "" if none

vars == <<pc, opts, term, net, cache, io, df, df2, grid, out, todo, fault>>

-----------------------------------------------------------------------------
(* Bounds of the model and the small sets the inputs are drawn from.       *)

MaxRows == 8          \* rows of a feed of the derived-column specification
MaxFlat == 8          \* rows of a feed of the whole-run specification
MaxSigned == 3        \* rows per country of a feed with corrections
MaxPairs == 4         \* countries of a feed of the lister specification

Window == 7           \* rolling(window=7)
CellWidth == 40       \* len('%5s %-34s' % ('', ''))
SpacerWidth == 1      \* len(' ')

ShipName == "Cases_on_an_international_conveyance_Japan"
ShipId == "JPG11668"
NewShipName == "Diamond_Princess_Japan"
NewShipId == "JPCS"

\* the countries of the feeds: code, display name, 2019 population
Directory ==
    << [geoId |-> "US", countriesAndTerritories |-> "United_States_of_America",
        popData2019 |-> 3290],
       [geoId |-> ShipId, countriesAndTerritories |-> ShipName,
        popData2019 |-> 30],
       [geoId |-> "IT", countriesAndTerritories |-> "Italy",
        popData2019 |-> 600],
       [geoId |-> "FR", countriesAndTerritories |-> "France",
        popData2019 |-> 670],
       [geoId |-> "UK", countriesAndTerritories |-> "United_Kingdom",
        popData2019 |-> 660] >>

\* raw (cases, deaths) of one row
RawVals == { <<1, 0>>, <<50, 2>> }
SignedVals == { <<-3, -1>>, <<0, 0>>, <<4, 1>> }
Thresholds == { 0, 2, 10 }
TermWidths == { 80, 100, 130, 170 }

\* the dateRep string 'dd/mm/yyyy' of the day-th day of a series, as its
\* three fields in the order they are written
DateRep(day) == IF day <= 4 THEN <<27 + day, 12, 2020>> ELSE <<day - 4, 1, 2021>>

\* one row of the feed
RawRow(c, day, v) ==
    [dateRep |-> DateRep(day), cases |-> v[1], deaths |-> v[2],
     countriesAndTerritories |-> c.countriesAndTerritories,
     geoId |-> c.geoId, popData2019 |-> c.popData2019]

\* the rows of one country, newest first; vals[d] are the raw values of day d
Block(c, vals) ==
    [j \in 1..Len(vals) |-> RawRow(c, Len(vals) + 1 - j, vals[Len(vals) + 1 - j])]

\* DATA_FILE holding a feed
CsvFile(rows) == [csv |-> TRUE, rows |-> rows]
\* DATA_FILE holding text that is no feed (an error page): read_csv makes
\* a table of it that has none of the columns of the feed
NotCsv == [csv |-> FALSE, rows |-> <<>>]

\* feeds of two countries, each country's rows contiguous and newest first
Feeds(a, b, max, vals) ==
    UNION { UNION { { Block(Directory[a], v1) \o Block(Directory[b], v2) :
                        v1 \in [1..n1 -> vals], v2 \in [1..n2 -> vals] } :
                    n2 \in (IF n1 = 0 THEN 1 ELSE 0)..(max - n1) } :
            n1 \in 0..max }

\* feeds whose countries each report one constant raw value
FlatFeeds(a, b, max, vals) ==
    UNION { UNION { { Block(Directory[a], [i \in 1..n1 |-> v1])
                        \o Block(Directory[b], [i \in 1..n2 |-> v2]) :
                        v1 \in vals, v2 \in vals } :
                    n2 \in (IF n1 = 0 THEN 1 ELSE 0)..(max - n1) } :
            n1 \in 0..max }

-----------------------------------------------------------------------------
(* The table operations of pandas that test() uses.                        *)

NaN == [nan |-> TRUE, num |-> 0]

\* a mean over Window values, kept exact as num / Window (the sum of whole
\* numbers is exact in floating point and its one division rounds
\* monotonically, so the order against a whole number is that of num)
Mean(total) == [nan |-> FALSE, num |-> total]

\* variant of GE: the undefined value taken as zero (fillna(0))
GEFillZero(v, t) == (IF v.nan THEN 0 ELSE v.num) >= t * Window

\* NaN >= t is False; otherwise num / Window >= t
GE(v, t) == ~v.nan /\ v.num >= t * Window

\* pd.read_csv: the rows under a RangeIndex
ReadCsv(file) == [i \in 1..Len(file.rows) |-> [index |-> i - 1] @@ file.rows[i]]

\* variant of Replace: the replacement done in the name column alone
ReplaceNameOnly(d, old, new) ==
    [i \in 1..Len(d) |->
        [d[i] EXCEPT !.countriesAndTerritories = IF @ = old THEN new ELSE @]]

\* df.replace(old, new, inplace=True): every cell equal to old, in whichever
\* column (the string columns of the feed; a number never equals a string)
Replace(d, old, new) ==
    [i \in 1..Len(d) |->
        [d[i] EXCEPT !.countriesAndTerritories = IF @ = old THEN new ELSE @,
                     !.geoId = IF @ = old THEN new ELSE @]]

\* variant of Reverse: the table left newest first
NoReverse(d) == d

\* df.iloc[::-1]
Reverse(d) == [i \in 1..Len(d) |-> d[Len(d) + 1 - i]]

\* pd.to_datetime(format='%d/%m/%Y'): first field the day, second the month,
\* third the year; a datetime is kept as its rank in calendar order
ToDatetime(s) == (s[3] * 12 + (s[2] - 1)) * 31 + s[1]

\* variant of GroupCumSum: the cumulative sum without the grouping
PlainCumSum(d, key, col, i) ==
    LET RECURSIVE Acc(_)
        Acc(j) == IF j = 0 THEN 0 ELSE d[j][col] + Acc(j - 1)
    IN Acc(i)

\* groupby([key])[col].cumsum() at row i: rows 1..i of the group of row i
GroupCumSum(d, key, col, i) ==
    LET RECURSIVE Acc(_)
        Acc(j) == IF j = 0 THEN 0
                  ELSE (IF d[j][key] = d[i][key] THEN d[j][col] ELSE 0) + Acc(j - 1)
    IN Acc(i)

\* variant of Rolling: the window centered on row i (center=True)
RollingCentered(d, col, i) ==
    LET half == Window \div 2
        RECURSIVE Acc(_)
        Acc(j) == IF j < i - half THEN 0 ELSE d[j][col] + Acc(j - 1)
    IN IF i - half < 1 \/ i + half > Len(d) THEN NaN ELSE Mean(Acc(i + half))

\* df[col].rolling(window=7).mean() at row i: over the rows of the table
Rolling(d, col, i) ==
    LET RECURSIVE Acc(_)
        Acc(j) == IF j <= i - Window THEN 0 ELSE d[j][col] + Acc(j - 1)
    IN IF i < Window THEN NaN ELSE Mean(Acc(i))

\* lines 243-264: the derived columns, then the columns kept
DerivedColumns(d) ==
    [i \in 1..Len(d) |->
        [index |-> d[i].index,
         geoId |-> d[i].geoId,
         countriesAndTerritories |-> d[i].countriesAndTerritories,
         Date |-> ToDatetime(d[i].dateRep),
         daily_cases |-> Rolling(d, "cases", i),
         daily_deaths |-> Rolling(d, "deaths", i),
         cases |-> d[i].cases,
         deaths |-> d[i].deaths,
         total_cases |-> GroupCumSum(d, "countriesAndTerritories", "cases", i),
         total_deaths |-> GroupCumSum(d, "countriesAndTerritories", "deaths", i),
         popData2019 |-> d[i].popData2019]]

\* df[df['daily cases'] >= int(opts['--threshold'])]
FilterThreshold(d, t) == SelectSeq(d, LAMBDA r : GE(r.daily_cases, t))

\* df[df['geoId'] == country_id]
SelectCountry(d, country_id) == SelectSeq(d, LAMBDA r : r.geoId = country_id)

\* Series.unique(): the values of a column in order of first occurrence
Unique(d, col) ==
    LET RECURSIVE Acc(_)
        Acc(j) == IF j = 0 THEN <<>>
                  ELSE LET u == Acc(j - 1)
                       IN IF \E k \in 1..Len(u) : u[k] = d[j][col]
                          THEN u ELSE Append(u, d[j][col])
    IN Acc(Len(d))

\* list(zip(a, b)): pairs up to the shorter list
Zip(a, b) ==
    [k \in 1..(IF Len(a) <= Len(b) THEN Len(a) ELSE Len(b)) |-> <<a[k], b[k]>>]

\* s[lo:hi] of a Python list (0-based, clipped to the list)
Slice(s, lo, hi) ==
    LET l == IF lo > Len(s) THEN Len(s) ELSE lo
        h == IF hi > Len(s) THEN Len(s) ELSE hi
    IN IF h <= l THEN <<>> ELSE SubSeq(s, l + 1, h)

blank_pair == <<"", "">>

\* [x,] * n
Repeat(x, n) == [k \in 1..n |-> x]

\* list(zip(*cols)): as many rows as the shortest column holds
ZipColumns(cols) ==
    LET shortest == CHOOSE n \in { Len(cols[c]) : c \in 1..Len(cols) } :
                        \A c \in 1..Len(cols) : n <= Len(cols[c])
    IN [r \in 1..shortest |-> [c \in 1..Len(cols) |-> cols[c][r]]]

\* line 72: how many cells fit on the screen
ColCount(columns) == columns \div (SpacerWidth + CellWidth)

\* lines 73-85: the rows of the grid for ids_and_cntry in col_count columns
GridRows(ids_and_cntry, col_count) ==
    LET n == Len(ids_and_cntry)
        col_length == (n + col_count - 1) \div col_count
        col_remainder == col_length * col_count - n
        first == [i \in 1..(col_count - 1) |->
                    Slice(ids_and_cntry, (i - 1) * col_length, i * col_length)]
        last == Slice(ids_and_cntry, (col_count - 1) * col_length, n)
                    \o Repeat(blank_pair, col_remainder)
    IN ZipColumns(Append(first, last))

\* lines 62-64
IdsAndCntry(d) == Zip(Unique(d, "geoId"), Unique(d, "countriesAndTerritories"))

\* str.upper() on the codes the command lines use
Upper(s) == CASE s = "us" -> "US" [] s = "jpcs" -> "JPCS" [] OTHER -> s

\* opts['--country'].upper().split(','), the option kept as its fields
Countries(o) == [k \in 1..Len(o.country) |-> Upper(o.country[k])]

\* int(x) of a rolling mean: truncation toward zero
IntOf(v) == IF v.num >= 0 THEN v.num \div Window ELSE -((-v.num) \div Window)

\* lines 100-104: what show_country_name prints
NameLine(d, country_id) ==
    [kind |-> "name", geoId |-> country_id,
     name |-> SelectCountry(d, country_id)[1].countriesAndTerritories]

\* lines 90-97: what show_country_stats prints
StatsLine(d, country_id) ==
    LET df3 == SelectCountry(d, country_id)
    IN [kind |-> "stats", geoId |-> country_id,
        c_cum |-> df3[Len(df3)].total_cases,
        d_cum |-> df3[Len(df3)].total_deaths,
        pop |-> df3[1].popData2019]

\* lines 107-118: what display_one_country prints and plots for a country
\* that has rows
CountryReport(o, d, country) ==
    LET df3 == SelectCountry(d, country)
    IN <<NameLine(d, country)>>
       \o (IF o.lines THEN <<[kind |-> "lines", geoId |-> country, rows |-> df3]>>
           ELSE <<>>)
       \o <<StatsLine(df3, country)>>
       \o (IF o.plot
           THEN <<[kind |-> "plot", title |-> df3[1].countriesAndTerritories,
                   points |-> Len(df3)]>>
           ELSE <<>>)

\* lines 128-154: the legend of the multi-country plot, one label per group
MultiLegend(o, d, countries) ==
    LET wanted == { countries[k] : k \in 1..Len(countries) }
        keys == { d[i].geoId : i \in 1..Len(d) } \cap wanted
        Last(key) == LET grp == SelectCountry(d, key) IN grp[Len(grp)]
        Y(r) == CASE o.multi = "c" -> IntOf(r.daily_cases)
                  [] o.multi = "d" -> IntOf(r.daily_deaths)
                  [] o.multi = "C" -> r.total_cases
                  [] OTHER -> r.total_deaths
    IN [kind |-> "multiplot", labels |-> { <<key, Y(Last(key))>> : key \in keys }]

-----------------------------------------------------------------------------
(* The run of test(opts), one action per step.                             *)

\* an uncaught exception: the traceback ends the run
Raise(e) == pc' = "fatal" /\ fault' = e

\* variant of GetData: the body written only when the status is 200
GetDataChecked ==
    /\ pc = "start"
    /\ opts.get
    /\ IF net.kind = "error"
       THEN /\ io' = Append(io, "GET")
            /\ Raise("ConnectionError")
            /\ UNCHANGED cache
       ELSE /\ io' = IF net.status = 200 THEN io \o <<"GET", "WRITE">>
                     ELSE Append(io, "GET")
            /\ cache' = IF net.status = 200 THEN net.body ELSE cache
            /\ pc' = "load"
            /\ UNCHANGED fault
    /\ UNCHANGED <<opts, term, net, df, df2, grid, out, todo>>

\* lines 212-213 and 48-55: get_data()
GetData ==
    /\ pc = "start"
    /\ opts.get
    /\ IF net.kind = "error"
       THEN /\ io' = Append(io, "GET")
            /\ Raise("ConnectionError")
            /\ UNCHANGED cache
       ELSE /\ io' = io \o <<"GET", "WRITE">>
            /\ cache' = net.body
            /\ pc' = "load"
            /\ UNCHANGED fault
    /\ UNCHANGED <<opts, term, net, df, df2, grid, out, todo>>

\* lines 215-217: pd.read_csv(DATA_FILE)
LoadData ==
    /\ \/ pc = "start" /\ ~opts.get
       \/ pc = "load"
    /\ io' = Append(io, "READ")
    /\ df' = ReadCsv(cache)
    /\ pc' = "loaded"
    /\ UNCHANGED <<opts, term, net, cache, df2, grid, out, todo, fault>>

\* lines 220-225: the two replacements
CleanData ==
    /\ pc = "loaded"
    /\ df' = Replace(Replace(df, ShipName, NewShipName), ShipId, NewShipId)
    /\ pc' = IF opts.ids THEN "ids" ELSE "clean"
    /\ UNCHANGED <<opts, term, net, cache, io, df2, grid, out, todo, fault>>

\* lines 227-228 and 57-87: show_all_country_codes(df); a file that is no
\* feed has none of the columns, and the first column read raises
ShowAllCountryCodes ==
    /\ pc = "ids"
    /\ IF ~cache.csv
       THEN Raise("AttributeError") /\ UNCHANGED grid
       ELSE /\ grid' = GridRows(IdsAndCntry(df), ColCount(term))
            /\ pc' = "clean"
            /\ UNCHANGED fault
    /\ UNCHANGED <<opts, term, net, cache, io, df, df2, out, todo>>

\* lines 230-264: the reversal and the derived columns
DeriveColumns ==
    /\ pc = "clean"
    /\ IF ~cache.csv
       THEN Raise("AttributeError") /\ UNCHANGED df
       ELSE /\ df' = DerivedColumns(Reverse(df))
            /\ pc' = "derived"
            /\ UNCHANGED fault
    /\ UNCHANGED <<opts, term, net, cache, io, df2, grid, out, todo>>

\* lines 266-271: the working set, and the countries asked for
Filter ==
    /\ pc = "derived"
    /\ df2' = FilterThreshold(df, opts.threshold)
    /\ todo' = Countries(opts)
    /\ pc' = IF opts.multi # "" THEN "multi" ELSE "single"
    /\ UNCHANGED <<opts, term, net, cache, io, df, grid, out, fault>>

\* lines 274-275 and 107-118: one turn of the loop over the countries;
\* iloc[0] of a selection without rows raises IndexError
DisplayOneCountry ==
    /\ pc = "single"
    /\ IF SelectCountry(df2, Head(todo)) = <<>>
       THEN Raise("IndexError") /\ UNCHANGED <<out, todo>>
       ELSE /\ out' = out \o CountryReport(opts, df2, Head(todo))
            /\ todo' = Tail(todo)
            /\ pc' = IF Tail(todo) = <<>> THEN "done" ELSE "single"
            /\ UNCHANGED fault
    /\ UNCHANGED <<opts, term, net, cache, io, df, df2, grid>>

\* lines 124-126: one turn of the loop of plot_multi_countries
MultiCountryStats ==
    /\ pc = "multi"
    /\ IF SelectCountry(df2, Head(todo)) = <<>>
       THEN Raise("IndexError") /\ UNCHANGED <<out, todo>>
       ELSE /\ out' = out \o <<NameLine(df2, Head(todo)), StatsLine(df2, Head(todo))>>
            /\ todo' = Tail(todo)
            /\ pc' = IF Tail(todo) = <<>> THEN "multiplot" ELSE "multi"
            /\ UNCHANGED fault
    /\ UNCHANGED <<opts, term, net, cache, io, df, df2, grid>>

\* lines 128-172: the plot of plot_multi_countries
PlotMultiCountries ==
    /\ pc = "multiplot"
    /\ out' = Append(out, MultiLegend(opts, df2, Countries(opts)))
    /\ pc' = "done"
    /\ UNCHANGED <<opts, term, net, cache, io, df, df2, grid, todo, fault>>

-----------------------------------------------------------------------------
(* The state a run starts in.                                              *)

NoResponse == [kind |-> "unused", status |-> 0, body |-> NotCsv]

\* what the endpoint may answer: no connection, the feed, an error page
Responses ==
    { [kind |-> "error", status |-> 0, body |-> NotCsv],
      [kind |-> "response", status |-> 200,
       body |-> CsvFile(Block(Directory[1], [i \in 1..MaxFlat |-> <<50, 2>>]))],
      [kind |-> "response", status |-> 404, body |-> NotCsv] }

CountryOptions == { <<"US">>, <<"us", "JPCS">>, <<"XX", "US">> }

\* a run starts with nothing read, printed or requested
Fresh ==
    /\ pc = "start"
    /\ io = <<>>
    /\ df = <<>>
    /\ df2 = <<>>
    /\ grid = <<>>
    /\ out = <<>>
    /\ todo = <<>>
    /\ fault = ""

\* the options the table steps do not read
Plain(threshold) ==
    [get |-> FALSE, ids |-> FALSE, threshold |-> threshold, country |-> <<"US">>,
     multi |-> "", lines |-> FALSE, plot |-> FALSE]

\* the whole run, on feeds whose countries report a constant value; the
\* response and the terminal are drawn only where the run reads them, and
\* --lines and --plot only in single-country mode, the mode that reads them
Init ==
    /\ Fresh
    /\ cache \in { CsvFile(f) : f \in FlatFeeds(1, 2, MaxFlat, RawVals) }
    /\ opts \in [get : BOOLEAN, ids : BOOLEAN, threshold : Thresholds,
                 country : CountryOptions, multi : {"", "c", "C"},
                 lines : BOOLEAN, plot : BOOLEAN]
    /\ opts.multi # "" => ~opts.lines /\ ~opts.plot
    /\ IF opts.get THEN net \in Responses ELSE net = NoResponse
    /\ IF opts.ids THEN term \in TermWidths ELSE term = 80

Next ==
    \/ GetData
    \/ LoadData
    \/ CleanData
    \/ ShowAllCountryCodes
    \/ DeriveColumns
    \/ Filter
    \/ DisplayOneCountry
    \/ MultiCountryStats
    \/ PlotMultiCountries

Spec == Init /\ [][Next]_vars

\* the table steps, on every feed of two countries up to MaxRows rows
InitData ==
    /\ Fresh
    /\ cache \in { CsvFile(f) : f \in Feeds(1, 2, MaxRows, RawVals)
                                      \cup Feeds(2, 1, MaxRows, RawVals) }
    /\ opts \in { Plain(t) : t \in Thresholds }
    /\ net = NoResponse
    /\ term = 80

NextData ==
    \/ LoadData
    \/ CleanData
    \/ DeriveColumns
    \/ Filter

SpecData == InitData /\ [][NextData]_vars

\* sequences over S of at most n elements
BoundedSeqs(n, S) == UNION { [1..k -> S] : k \in 0..n }

\* the table steps, on feeds that hold corrections (negative raw values)
InitSigned ==
    /\ Fresh
    /\ cache \in { CsvFile(Block(Directory[1], v1) \o Block(Directory[2], v2)) :
                     v1 \in BoundedSeqs(MaxSigned, SignedVals) \ {<<>>},
                     v2 \in BoundedSeqs(MaxSigned, SignedVals) }
    /\ opts \in { Plain(t) : t \in Thresholds }
    /\ net = NoResponse
    /\ term = 80

SpecSigned == InitSigned /\ [][NextData]_vars

\* the raw daily cases of the ten-row fixture, oldest first
Fixture == <<1, 1, 1, 1, 1, 1, 1, 50, 50, 50>>

\* the table steps, on the one-country feeds as long as the fixture
InitFixture ==
    /\ Fresh
    /\ cache \in { CsvFile(Block(Directory[1], v)) : v \in [1..Len(Fixture) -> RawVals] }
    /\ opts \in { Plain(t) : t \in Thresholds }
    /\ net = NoResponse
    /\ term = 80

SpecFixture == InitFixture /\ [][NextData]_vars

\* the code listing, on feeds of one row for each of up to MaxPairs countries
InitLister ==
    /\ Fresh
    /\ \E k \in 1..MaxPairs :
         \E order \in [1..k -> 1..Len(Directory)] :
            /\ \A i, j \in 1..k : i # j => order[i] # order[j]
            /\ cache = CsvFile([i \in 1..k |-> RawRow(Directory[order[i]], 1, <<50, 2>>)])
    /\ opts = [Plain(2) EXCEPT !.ids = TRUE]
    /\ net = NoResponse
    /\ term \in TermWidths

NextLister ==
    \/ LoadData
    \/ CleanData
    \/ ShowAllCountryCodes

SpecLister == InitLister /\ [][NextLister]_vars

-----------------------------------------------------------------------------
(* What the claims speak of, stated on the state and not with the          *)
(* operators of the run.                                                   *)

\* the table holds the derived columns
HasDerived ==
    \/ pc \in {"derived", "single", "multi", "multiplot", "done"}
    \/ pc = "fatal" /\ fault = "IndexError"

\* the working set has been taken
HasFiltered ==
    \/ pc \in {"single", "multi", "multiplot", "done"}
    \/ pc = "fatal" /\ fault = "IndexError"

Records(d) == { d[i] : i \in 1..Len(d) }

\* the sum of column col over the rows of d that satisfy P
SumWhere(d, col, P(_)) ==
    LET RECURSIVE Acc(_)
        Acc(j) == IF j = 0 THEN 0
                  ELSE (IF P(d[j]) THEN d[j][col] ELSE 0) + Acc(j - 1)
    IN Acc(Len(d))

\* r is the n-th record of its country in ascending date order
RankOf(r) ==
    Cardinality({ s \in Records(df) : s.geoId = r.geoId /\ s.Date <= r.Date })

\* the sum of col over the records n-6..n of the country of r, n its rank
OwnWindow(r, col) ==
    SumWhere(df, col, LAMBDA s : /\ s.geoId = r.geoId
                                 /\ RankOf(s) > RankOf(r) - Window
                                 /\ RankOf(s) <= RankOf(r))

\* the sum of col over the records of the country of r dated on or before it
OwnPrefix(r, col) ==
    SumWhere(df, col, LAMBDA s : s.geoId = r.geoId /\ s.Date <= r.Date)

\* the smoothed value v is the per-country trailing mean of col at r
SmoothedOwn(r, v, col) ==
    IF RankOf(r) < Window THEN v.nan
    ELSE ~v.nan /\ v.num = OwnWindow(r, col)

\* C1: for every country, the smoothed daily cases and deaths of its n-th
\* record (by date) are undefined for n <= 6 and for n >= 7 the mean of the
\* raw values of its own records n-6..n; no other country's value enters.
C1_SmoothedPerCountry ==
    HasDerived =>
        \A r \in Records(df) :
            /\ SmoothedOwn(r, r.daily_cases, "cases")
            /\ SmoothedOwn(r, r.daily_deaths, "deaths")

\* C2: every record's cumulative cases and deaths are the sums of the raw
\* values of its country's records dated on or before it, in the table and
\* in the filtered working set, whose records still count the dropped ones.
C2_CumulativeIsPrefixSum ==
    /\ HasDerived =>
         \A r \in Records(df) :
            /\ r.total_cases = OwnPrefix(r, "cases")
            /\ r.total_deaths = OwnPrefix(r, "deaths")
    /\ HasFiltered =>
         \A r \in Records(df2) :
            /\ r.total_cases = OwnPrefix(r, "cases")
            /\ r.total_deaths = OwnPrefix(r, "deaths")

\* a kept record whose total counts an earlier record that was dropped
C2_Witness ==
    /\ HasFiltered
    /\ \E r \in Records(df2) : \E s \in Records(df) \ Records(df2) :
         /\ s.geoId = r.geoId
         /\ s.Date < r.Date
         /\ s.cases > 0
         /\ r.total_cases > r.cases
    /\ \E r, s \in Records(df) : r.geoId # s.geoId

\* the records of d whose smoothed daily cases are defined and >= t
AtLeast(d, t) ==
    { r \in Records(d) : ~r.daily_cases.nan /\ r.daily_cases.num >= t * Window }

\* C3: a record is in the filtered working set iff its smoothed daily case
\* value is defined and >= the threshold (an undefined value is never kept,
\* never taken as zero); so the set for threshold 2 holds the set for 10.
C3_FilteredIffAtLeast ==
    HasFiltered =>
        /\ Records(df2) = AtLeast(df, opts.threshold)
        /\ Len(df2) = Cardinality(Records(df2))
        /\ \A r \in Records(df) : r.daily_cases.nan => r \notin Records(df2)
        /\ Records(FilterThreshold(df, 10)) \subseteq Records(FilterThreshold(df, 2))
        /\ Records(FilterThreshold(df, 10)) = AtLeast(df, 10)
        /\ Records(FilterThreshold(df, 2)) = AtLeast(df, 2)

\* threshold 0: undefined values are dropped, defined ones kept; and the set
\* for threshold 2 is strictly larger than the set for threshold 10
C3_Witness ==
    /\ HasFiltered
    /\ opts.threshold = 0
    /\ \E r \in Records(df) : r.daily_cases.nan
    /\ df2 # <<>>
    /\ Records(FilterThreshold(df, 10)) # {}
    /\ Records(FilterThreshold(df, 10)) # Records(FilterThreshold(df, 2))

\* C5: for any two records of one country the later-dated one has
\* cumulative cases and deaths >= those of the earlier one.
C5_CumulativeNonDecreasing ==
    HasDerived =>
        \A r, s \in Records(df) :
            (r.geoId = s.geoId /\ r.Date <= s.Date) =>
                /\ r.total_cases <= s.total_cases
                /\ r.total_deaths <= s.total_deaths

\* no raw value of the country of r is negative
NonNegative(geoId) ==
    \A s \in Records(df) : s.geoId = geoId => s.cases >= 0 /\ s.deaths >= 0

\* C5, amended: for a country whose raw daily values are all non-negative,
\* the later-dated of two records has cumulative cases and deaths >= those
\* of the earlier one.
C5_NonDecreasingWhenNonNegative ==
    HasDerived =>
        \A r, s \in Records(df) :
            (r.geoId = s.geoId /\ r.Date <= s.Date /\ NonNegative(r.geoId)) =>
                /\ r.total_cases <= s.total_cases
                /\ r.total_deaths <= s.total_deaths

\* a country without corrections whose totals grow, beside one with them
C5_Witness ==
    /\ HasDerived
    /\ \E r, s \in Records(df) :
         /\ r.geoId = s.geoId
         /\ r.Date < s.Date
         /\ NonNegative(r.geoId)
         /\ r.total_cases < s.total_cases
    /\ \E r \in Records(df) : ~NonNegative(r.geoId)

\* C6: a country with fewer than 7 records has no record in the filtered
\* working set, whatever the threshold and whatever precedes it.
C6_ShortCountryDropped ==
    HasFiltered =>
        \A r \in Records(df2) :
            Cardinality({ s \in Records(df) : s.geoId = r.geoId }) >= Window

\* the table is the fixture: one country, raw cases Fixture oldest first
IsFixture ==
    /\ Len(df) = Len(Fixture)
    /\ \A i \in 1..Len(df) :
         /\ df[i].cases = Fixture[i]
         /\ df[i].geoId = df[1].geoId
         /\ RankOf(df[i]) = i

\* C8: on the fixture with threshold 10 exactly 3 records remain, the last
\* three.
C8_FixtureKeepsThree ==
    (HasFiltered /\ IsFixture /\ opts.threshold = 10) =>
        /\ Len(df2) = 3
        /\ Records(df2) = { df[i] : i \in (Len(df) - 2)..Len(df) }

\* C8, amended: on the fixture with threshold 10 exactly 2 records remain,
\* the last two, whose smoothed values are 105/7 = 15 and 154/7 = 22; the
\* eighth record's is 56/7 = 8.
C8_FixtureKeepsTwo ==
    (HasFiltered /\ IsFixture /\ opts.threshold = 10) =>
        /\ Len(df2) = 2
        /\ df2 = <<df[Len(df) - 1], df[Len(df)]>>
        /\ df[Len(df) - 2].daily_cases = [nan |-> FALSE, num |-> 8 * Window]
        /\ df[Len(df) - 1].daily_cases = [nan |-> FALSE, num |-> 15 * Window]
        /\ df[Len(df)].daily_cases = [nan |-> FALSE, num |-> 22 * Window]

C8_Witness == HasFiltered /\ IsFixture /\ opts.threshold = 10 /\ df2 # <<>>

\* the code listing has been printed
Listed == opts.ids /\ pc \notin {"start", "load", "loaded", "ids"} /\ fault = ""

\* the (code, name) of each row, for a table of one row per country
RowPairs == [i \in 1..Len(df) |-> <<df[i].geoId, df[i].countriesAndTerritories>>]

\* the cells of the grid read column by column, top to bottom
ColumnMajor(g, rows, n) ==
    [k \in 1..(rows * n) |-> g[((k - 1) % rows) + 1][((k - 1) \div rows) + 1]]

\* C4: for K >= 1 distinct pairs and N >= 1 columns the grid has ceil(K/N)
\* rows of N cells, holds every pair exactly once, K non-blank cells and
\* rows*N - K blank ones, and read column by column gives back the pairs.
C4_GridHoldsEveryPair ==
    (Listed /\ pc = "clean" /\ Len(df) >= 1 /\ ColCount(term) >= 1
        /\ \A i, j \in 1..Len(df) : i # j => RowPairs[i] # RowPairs[j]) =>
        LET K == Len(RowPairs)
            N == ColCount(term)
            rows == (K + N - 1) \div N
            Cells(P(_)) == { <<r, c>> \in (1..rows) \X (1..N) : P(grid[r][c]) }
        IN /\ Len(grid) = rows
           /\ \A r \in 1..rows : Len(grid[r]) = N
           /\ \A k \in 1..K :
                Cardinality(Cells(LAMBDA cell : cell = RowPairs[k])) = 1
           /\ Cardinality(Cells(LAMBDA cell : cell # blank_pair)) = K
           /\ Cardinality(Cells(LAMBDA cell : cell = blank_pair)) = rows * N - K
           /\ ColumnMajor(grid, rows, N)
                = RowPairs \o [k \in 1..(rows * N - K) |-> blank_pair]

\* the run got as far as reporting the requested countries and has ended
Reported == pc = "done" \/ (pc = "fatal" /\ fault = "IndexError")

Printed(kind, country) ==
    \E k \in 1..Len(out) : out[k].kind = kind /\ out[k].geoId = country

\* the code occurs nowhere in the loaded table
Unknown(country) == \A r \in Records(df) : r.geoId # country

\* the requested codes are unknown ones and ones the working set has rows
\* of, at least one of each
OnlyUnknownMissing ==
    /\ \E k \in 1..Len(Countries(opts)) : Unknown(Countries(opts)[k])
    /\ \E k \in 1..Len(Countries(opts)) : SelectCountry(df2, Countries(opts)[k]) # <<>>
    /\ \A k \in 1..Len(Countries(opts)) :
         \/ Unknown(Countries(opts)[k])
         \/ SelectCountry(df2, Countries(opts)[k]) # <<>>

\* C7: a requested code that matches no records (an unknown or misspelled
\* code) is reported as an unknown country code, not as an out-of-range
\* fault, and every other requested code still gets its header and
\* statistics, in single-country and in multi-country mode.
C7_UnknownCodeReported ==
    (Reported /\ OnlyUnknownMissing) =>
        /\ fault # "IndexError"
        /\ \A k \in 1..Len(Countries(opts)) :
             LET country == Countries(opts)[k]
             IN IF Unknown(country)
                THEN Printed("unknown country code", country)
                ELSE Printed("name", country) /\ Printed("stats", country)

Count(s, x) == Cardinality({ k \in 1..Len(s) : s[k] = x })

\* what C9 says of a state
C9_State ==
    /\ opts.get =>
         /\ Count(io, "GET") = (IF pc = "start" THEN 0 ELSE 1)
         /\ net.kind = "error" => pc \in {"start", "fatal"} /\ Count(io, "READ") = 0
         /\ Count(io, "READ") > 0 =>
              /\ io = <<"GET", "WRITE", "READ">>
              /\ cache = net.body
         /\ pc = "loaded" =>
              /\ Len(df) = Len(net.body.rows)
              /\ \A i \in 1..Len(df) :
                   /\ df[i].cases = net.body.rows[i].cases
                   /\ df[i].deaths = net.body.rows[i].deaths
                   /\ df[i].dateRep = net.body.rows[i].dateRep
                   /\ df[i].geoId = net.body.rows[i].geoId
    /\ ~opts.get => Count(io, "GET") = 0 /\ Count(io, "WRITE") = 0

\* what C9 says of a step
C9_Step ==
    /\ ~opts.get => cache' = cache
    /\ Count(io, "WRITE") > 0 => cache' = cache
    /\ Count(io', "GET") <= 1

\* C9: with the fetch flag exactly one GET is issued, never retried; on any
\* response, whatever its status, the cache holds the full body before the
\* loader reads it; a GET that fails ends the run with nothing read.  Without
\* the flag nothing is requested and the cache is never written.
C9_FetchOnceBeforeLoad == [](C9_State) /\ [][C9_Step]_vars

\* a run whose GET was answered 404 and whose loader read the body
C9_Witness ==
    /\ opts.get
    /\ net.kind = "response"
    /\ net.status = 404
    /\ io = <<"GET", "WRITE", "READ">>
    /\ cache = net.body

Old == {ShipName, ShipId}

\* the row of the feed as the remap leaves it
Remapped(row) ==
    [row EXCEPT !.countriesAndTerritories = IF @ = ShipName THEN NewShipName ELSE @,
                !.geoId = IF @ = ShipId THEN NewShipId ELSE @]

\* C10: before the code listing, the cumulative grouping and any selection
\* by country run, every record named ShipName or coded ShipId has become
\* NewShipName / NewShipId; none of those steps sees an original value, and
\* the remap changes no other field of any record.
C10_RemapBeforeUse ==
    /\ pc \in {"ids", "clean"} =>
         /\ Len(df) = Len(cache.rows)
         /\ \A i \in 1..Len(df) : df[i] = [index |-> i - 1] @@ Remapped(cache.rows[i])
    /\ pc \notin {"start", "load", "loaded"} =>
         /\ \A r \in Records(df) \cup Records(df2) :
              r.geoId \notin Old /\ r.countriesAndTerritories \notin Old
         /\ \A r \in 1..Len(grid) : \A c \in 1..Len(grid[r]) :
              grid[r][c][1] \notin Old /\ grid[r][c][2] \notin Old
         /\ \A k \in 1..Len(out) :
              /\ out[k].kind \in {"name", "stats", "lines"} => out[k].geoId \notin Old
              /\ out[k].kind = "name" => out[k].name \notin Old
    /\ (pc \in {"start", "load", "loaded"}) => (grid = <<>> /\ df2 = <<>> /\ out = <<>>)

\* a feed with ship records, listed and then reported under the new code
C10_Witness ==
    /\ pc = "done"
    /\ \E i \in 1..Len(cache.rows) :
         /\ cache.rows[i].geoId = ShipId
         /\ cache.rows[i].countriesAndTerritories = ShipName
    /\ \E r \in 1..Len(grid) : \E c \in 1..Len(grid[r]) :
         grid[r][c] = <<NewShipId, NewShipName>>
    /\ Printed("stats", NewShipId)

====
